---------------------------- MODULE Spec2Model ----------------------------
(***************************************************************************)
(* A model of the LangGraph documentation retrieval pipeline:              *)
(*   langraph_docs.py  the build pipeline (crawl, archive, split, embed,   *)
(*                     persist, sample query)                              *)
(*   agent.py          the query service (retrieval tool, resource read)   *)
(*                                                                         *)
(* Texts are modelled in two ways.  The text extractor works on sequences  *)
(* of characters.  Everything that reads or writes files works on texts    *)
(* split at "\n": a text is a non-empty sequence of lines, the last line   *)
(* being the part after the last "\n" (so "" is <<"">> and "a\n" is        *)
(* <<"a", "">>).  Concatenation of such texts joins the last line of the   *)
(* left text with the first line of the right one, as string               *)
(* concatenation does.                                                     *)
(***************************************************************************)
EXTENDS Integers, Sequences, FiniteSets, TLC

VARIABLES
    html,        \* the HTML input of a bs4_extractor call
    xpc,         \* the position of that call
    extracted,   \* the string that call returned
    cwd,         \* os.getcwd() of the build and of the service
    fs,          \* the file system: path -> [exists, data]
    links,       \* the link graph of the crawled site: page -> set of pages
    pc,          \* the position of main() in the build pipeline
    seedIdx,     \* load_langgraph_docs: index of the seed being crawled
    yielded,     \* pages the current seed's loader has yielded so far
    docs,        \* load_langgraph_docs: the document list
    tokens_per_doc, \* load_langgraph_docs: the token count list
    wi,          \* save_llm_full: number of documents written so far
    split_docs,  \* split_documents: the chunk list
    vectorstore, \* create_vectorstore: the rows of the in-memory store
    sample,      \* main: what the sample query printed
    failed,      \* the stage whose failure aborted the build ("" if none)
    fs0,         \* history: the file system when the build started
    trail,       \* history: the build stages in the order they completed
    libEmpty,    \* what the store library does on a store without rows
    lastCall,    \* history: the last call the query service answered
    qlog,        \* history: retrieval calls that returned
    rlog         \* history: resource reads that returned

xvars == <<html, xpc, extracted>>
envvars == <<cwd, links, libEmpty>>
loadvars == <<seedIdx, yielded, docs, tokens_per_doc>>
buildvars == <<pc, wi, split_docs, vectorstore, sample, failed, fs0, trail>>
svcvars == <<lastCall, qlog, rlog>>
vars == <<xvars, envvars, fs, loadvars, buildvars, svcvars>>

----------------------------------------------------------------------------
(* Bounds of the model *)

\* longest HTML page text, in characters
MaxHtmlLen == 5

----------------------------------------------------------------------------
(* Sequences and texts *)

Last(s) == s[Len(s)]

Front(s) == SubSeq(s, 1, Len(s) - 1)

Range(s) == {s[i] : i \in 1..Len(s)}

SeqsUpTo(S, n) == UNION {[1..k -> S] : k \in 0..n}

\* the empty string as a text
EmptyText == <<"">>

\* a + b on strings, in the line representation
Cat(a, b) == Front(a) \o <<Last(a) \o Head(b)>> \o Tail(b)

RECURSIVE CatAll(_)
CatAll(ts) == IF ts = <<>> THEN EmptyText ELSE Cat(Head(ts), CatAll(Tail(ts)))

\* sep.join(ts)
RECURSIVE Join(_, _)
Join(sep, ts) ==
    IF ts = <<>> THEN EmptyText
    ELSE IF Len(ts) = 1 THEN ts[1]
    ELSE Cat(ts[1], Cat(sep, Join(sep, Tail(ts))))

\* the string literals of the source
NL == <<"", "">>

NLNL == <<"", "", "">>

\* str(n) of a number
Str(n) == ToString(n)

----------------------------------------------------------------------------
(* bs4_extractor: langraph_docs.py 27-35, on sequences of characters *)

Chars == {"a", " ", "\n"}

\* the characters str.strip() removes
Whitespace == {" ", "\n"}

WellFormedHtml(h) ==
    IF h.main = <<>> THEN TRUE
    ELSE h.main[1] <= h.main[2] + 1 /\ h.main[2] <= Len(h.text)

\* A parsed page: its whole text, and the place of the first
\* <article class="md-content__inner"> in it (none when main = <<>>).
HtmlInputs ==
    {h \in {[text |-> t, main |-> m] :
              t \in SeqsUpTo(Chars, MaxHtmlLen),
              m \in {<<>>} \cup {<<lo, hi>> : lo \in 1..(MaxHtmlLen + 1), hi \in 0..MaxHtmlLen}} :
        WellFormedHtml(h)}

\* soup.find("article", class_="md-content__inner"): found or None
soup_find(h) == h.main # <<>>

\* main_content.get_text()
get_text(h) == SubSeq(h.text, h.main[1], h.main[2])

\* soup.text
soup_text(h) == h.text

RECURSIVE DropNewlines(_)
DropNewlines(s) ==
    IF s # <<>> /\ Head(s) = "\n" THEN DropNewlines(Tail(s)) ELSE s

\* a replacement string of one newline where the source has two
RECURSIVE re_sub_OneNewline(_)
re_sub_OneNewline(s) ==
    IF s = <<>> THEN <<>>
    ELSE IF Len(s) >= 2 /\ s[1] = "\n" /\ s[2] = "\n"
         THEN <<"\n">> \o re_sub_OneNewline(DropNewlines(s))
         ELSE <<Head(s)>> \o re_sub_OneNewline(Tail(s))

\* re.sub(r"\n\n+", "\n\n", s): a left-to-right scan, the match greedy
RECURSIVE re_sub(_)
re_sub(s) ==
    IF s = <<>> THEN <<>>
    ELSE IF Len(s) >= 2 /\ s[1] = "\n" /\ s[2] = "\n"
         THEN <<"\n", "\n">> \o re_sub(DropNewlines(s))
         ELSE <<Head(s)>> \o re_sub(Tail(s))

RECURSIVE lstrip(_)
lstrip(s) == IF s # <<>> /\ Head(s) \in Whitespace THEN lstrip(Tail(s)) ELSE s

RECURSIVE rstrip(_)
rstrip(s) == IF s # <<>> /\ Last(s) \in Whitespace THEN rstrip(Front(s)) ELSE s

\* str.strip()
strip(s) == rstrip(lstrip(s))

bs4_extractor(h) ==
    LET content == IF soup_find(h) THEN get_text(h) ELSE soup_text(h)
    IN  strip(re_sub(content))

Extract ==
    /\ xpc = "call"
    /\ extracted' = bs4_extractor(html)
    /\ xpc' = "returned"
    /\ UNCHANGED <<html, envvars, fs, loadvars, buildvars, svcvars>>

----------------------------------------------------------------------------
(* The crawled site *)

\* urls: langraph_docs.py 52-58
urls ==
    << "https://langchain-ai.github.io/langgraph/concepts/",
       "https://langchain-ai.github.io/langgraph/how-tos/",
       "https://langchain-ai.github.io/langgraph/tutorials/workflows/",
       "https://langchain-ai.github.io/langgraph/tutorials/introduction/",
       "https://langchain-ai.github.io/langgraph/tutorials/langgraph-platform/local-server/" >>

\* max_depth=5: langraph_docs.py 63
max_depth == 5

\* pages of the site that are not seeds
Inner == {"/c1", "/c2", "/c3", "/c4", "/c5", "/shared"}

Pages == Range(urls) \cup Inner

Graph(edges) == [p \in Pages |-> {e[2] : e \in {x \in edges : x[1] = p}}]

NoLinks == Graph({})

\* one page linked from two seeds, and linking back
SharedPage == Graph({<<urls[1], "/shared">>, <<urls[2], "/shared">>, <<"/shared", urls[1]>>})

\* a seed linking to another seed
SeedToSeed == Graph({<<urls[3], urls[4]>>})

\* a chain one page longer than the depth bound reaches
Chain == Graph({<<urls[1], "/c1">>, <<"/c1", "/c2">>, <<"/c2", "/c3">>,
                <<"/c3", "/c4">>, <<"/c4", "/c5">>, <<"/c5", urls[1]>>})

SmallGraphs == {NoLinks, SharedPage}

AllGraphs == {NoLinks, SharedPage, SeedToSeed, Chain}

\* the text the extractor returned for each page, as lines
PageText(p) ==
    CASE p = urls[1] -> <<"LangGraph is a library for", "", "building agents">>
      [] p = urls[2] -> <<"Nodes and edges define...">>
      [] p = "/shared" -> <<"DOCUMENT 1", "shared page">>
      [] p = "/c5" -> <<"">>
      [] OTHER -> <<p>>

\* Document(page_content=..., metadata={"source": url})
Document(content, meta) == [page_content |-> content, metadata |-> meta]

PageDocument(p) == Document(PageText(p), {<<"source", p>>})

\* dict.get(key, default) on a metadata mapping, a set of <<key, value>>
MetaGet(m, key, default) ==
    IF \E kv \in m : kv[1] = key
    THEN (CHOOSE kv \in m : kv[1] = key)[2]
    ELSE default

\* The pages a loader started at a seed yields: those at a depth below
\* max_depth, the seed being at depth 0.
RECURSIVE Within(_, _, _)
Within(g, seed, d) ==
    IF d = 0 THEN {seed}
    ELSE LET prev == Within(g, seed, d - 1)
         IN  prev \cup UNION {g[p] : p \in prev}

LoaderPages(g, seed) == Within(g, seed, max_depth - 1)

RECURSIVE SumLen(_)
SumLen(t) == IF t = <<>> THEN 0 ELSE Len(Head(t)) + SumLen(Tail(t))

\* count_tokens: langraph_docs.py 12-24.  The encoding is abstracted to one
\* token per character, "\n" included; count_tokens("") = 0.
count_tokens(text) == SumLen(text) + (Len(text) - 1)

----------------------------------------------------------------------------
(* The file system *)

Cwds == {"/app", "/srv/docs"}

\* __file__ of agent.py
ModuleFile == "/app/agent.py"

\* PATH = Path(__file__): agent.py 8
PATH == ModuleFile

\* pathlib's "/" operator
PathJoin(dir, name) == dir \o "/" \o name

\* a relative path given to open() is resolved against the working directory
Resolve(c, name) == PathJoin(c, name)

\* output_filename of save_llm_full: langraph_docs.py 88, opened at 90
archive_path(c) == Resolve(c, "llms_full.txt")

\* doc_path of get_all_langgraphp_docs: agent.py 54
doc_path == PathJoin(PATH, "llms_full.txt")

\* persist_path of create_vectorstore: langraph_docs.py 159
build_persist_path(c) == c \o "/sklearn_vectorstore.parquet"

\* persist_path of langgraph_query_tool: agent.py 27
query_persist_path(c) == c \o "/sklear_vectorestore.parquet"

AllPaths ==
    {ModuleFile, doc_path}
        \cup {archive_path(c) : c \in Cwds}
        \cup {build_persist_path(c) : c \in Cwds}
        \cup {query_persist_path(c) : c \in Cwds}

Missing == [exists |-> FALSE, data |-> <<>>]

File(d) == [exists |-> TRUE, data |-> d]

\* the parent of a path that has one among the modelled paths
Parent(p) == IF p = doc_path THEN ModuleFile ELSE ""

\* A path below a regular file names nothing.
WellFormedFs(f) ==
    \A p \in AllPaths : (Parent(p) # "" /\ f[Parent(p)].exists) => ~f[p].exists

\* str(e) of the OSError open(p, "r") raises, "" when it succeeds
OpenError(f, p) ==
    IF Parent(p) # "" /\ f[Parent(p)].exists
    THEN "[Errno 20] Not a directory: '" \o p \o "'"
    ELSE IF ~f[p].exists
    THEN "[Errno 2] No such file or directory: '" \o p \o "'"
    ELSE ""

\* open(p, "a"): create or keep
OpenW_Append(f, p) == IF f[p].exists THEN f ELSE [f EXCEPT ![p] = File(EmptyText)]

\* open(p, "w"): create or truncate
OpenW(f, p) == [f EXCEPT ![p] = File(EmptyText)]

\* f.write(text) on the file at p
Write(f, p, text) == [f EXCEPT ![p] = File(Cat(f[p].data, text))]

----------------------------------------------------------------------------
(* The embedding provider and the vector store *)

\* chunk_size=8000: langraph_docs.py 124
chunk_size == 8000

\* k of as_retriever(search_kwargs={"k": 3}): agent.py 29, langraph_docs.py 180
k == 3

\* OpenAIEmbeddings(model="text-embedding-3-large") on a text: a fixed
\* function of the text, here into a line of integers
Embed(text) == (3 * count_tokens(text) + Len(text)) % 11

Abs(n) == IF n < 0 THEN -n ELSE n

\* one stored row: the chunk's text and metadata with its vector
Row(chunk) ==
    [text |-> chunk.page_content, metadata |-> chunk.metadata,
     vector |-> Embed(chunk.page_content)]

\* the stored row nearest to the query vector among the indices in idx,
\* the earlier row on a tie
Nearest(store, qv, idx) ==
    CHOOSE i \in idx : \A j \in idx :
        \/ Abs(store[i].vector - qv) < Abs(store[j].vector - qv)
        \/ (Abs(store[i].vector - qv) = Abs(store[j].vector - qv) /\ i <= j)

RECURSIVE NearestK(_, _, _, _)
NearestK(store, qv, idx, n) ==
    IF n = 0 \/ idx = {} THEN <<>>
    ELSE LET b == Nearest(store, qv, idx)
         IN  <<store[b]>> \o NearestK(store, qv, idx \ {b}, n - 1)

\* retriever.invoke(query) on a store with rows: the k nearest rows as
\* documents, by decreasing similarity
similarity_search(store, query, n) ==
    LET found == NearestK(store, Embed(<<query>>), DOMAIN store, n)
    IN  [i \in DOMAIN found |-> Document(found[i].text, found[i].metadata)]

----------------------------------------------------------------------------
(* The build pipeline: langraph_docs.py *)

\* main with save_llm_full called after create_vectorstore's embedding
main_next_ArchiveLate(stage) ==
    CASE stage = "load" -> "split"
      [] stage = "split" -> "embed"
      [] stage = "embed" -> "archive"
      [] stage = "archive" -> "persist"
      [] stage = "persist" -> "sample"
      [] stage = "sample" -> "done"

\* main: the stage that follows each stage (langraph_docs.py 176-182)
main_next(stage) ==
    CASE stage = "load" -> "archive"
      [] stage = "archive" -> "split"
      [] stage = "split" -> "embed"
      [] stage = "embed" -> "persist"
      [] stage = "persist" -> "sample"
      [] stage = "sample" -> "done"

\* load_langgraph_docs 62-68: the current seed's loader yields one more page
LoaderYield ==
    /\ pc = "load"
    /\ seedIdx <= Len(urls)
    /\ \E p \in LoaderPages(links, urls[seedIdx]) \ yielded :
          /\ docs' = Append(docs, PageDocument(p))
          /\ yielded' = yielded \cup {p}
    /\ UNCHANGED <<xvars, envvars, fs, seedIdx, tokens_per_doc, buildvars, svcvars>>

\* the loop leaves a loader before it is exhausted
LoaderNext_Early ==
    /\ pc = "load"
    /\ seedIdx <= Len(urls)
    /\ seedIdx' = seedIdx + 1
    /\ yielded' = {}
    /\ UNCHANGED <<xvars, envvars, fs, docs, tokens_per_doc, buildvars, svcvars>>

\* load_langgraph_docs 62-63: the loader is exhausted; a new loader for the
\* next seed
LoaderNext ==
    /\ pc = "load"
    /\ seedIdx <= Len(urls)
    /\ yielded = LoaderPages(links, urls[seedIdx])
    /\ seedIdx' = seedIdx + 1
    /\ yielded' = {}
    /\ UNCHANGED <<xvars, envvars, fs, docs, tokens_per_doc, buildvars, svcvars>>

\* the failure of a fetch is swallowed and the crawl goes on with the next seed
CrawlFail_Swallowed ==
    /\ pc = "load"
    /\ seedIdx <= Len(urls)
    /\ seedIdx' = seedIdx + 1
    /\ yielded' = {}
    /\ failed' = "crawl"
    /\ UNCHANGED <<xvars, envvars, fs, docs, tokens_per_doc, pc, wi, split_docs,
                   vectorstore, sample, fs0, trail, svcvars>>

\* a fetch raises: nothing in load_langgraph_docs or main catches it
CrawlFail ==
    /\ pc = "load"
    /\ seedIdx <= Len(urls)
    /\ pc' = "aborted"
    /\ failed' = "crawl"
    /\ UNCHANGED <<xvars, envvars, fs, loadvars, wi, split_docs, vectorstore, sample,
                   fs0, trail, svcvars>>

\* load_langgraph_docs 75-83: count the tokens and return
LoadReturn ==
    /\ pc = "load"
    /\ seedIdx > Len(urls)
    /\ tokens_per_doc' = [i \in DOMAIN docs |-> count_tokens(docs[i].page_content)]
    /\ pc' = main_next("load")
    /\ trail' = Append(trail, "crawl")
    /\ UNCHANGED <<xvars, envvars, fs, seedIdx, yielded, docs, wi, split_docs,
                   vectorstore, sample, failed, fs0, svcvars>>

\* the separator line: "=" * 80
Separator ==
    "================================================================================"

\* save_llm_full 94-98: the five writes for document i (0-based), as one text
ArchiveRecord(i, doc) ==
    CatAll(<< Cat(<<"DOCUMENT " \o Str(i + 1)>>, NL),
              Cat(<<"SOURCE: " \o MetaGet(doc.metadata, "source", "Unknown url")>>, NL),
              Cat(<<"CONTENT:">>, NL),
              doc.page_content,
              Cat(NLNL, Cat(<<Separator>>, NLNL)) >>)

\* save_llm_full 90: open(output_filename, "w")
ArchiveOpen ==
    /\ pc = "archive"
    /\ fs' = OpenW(fs, archive_path(cwd))
    /\ wi' = 0
    /\ pc' = "archive_w"
    /\ UNCHANGED <<xvars, envvars, loadvars, split_docs, vectorstore, sample, failed,
                   fs0, trail, svcvars>>

\* save_llm_full 91-98: one turn of the loop
ArchiveWrite ==
    /\ pc = "archive_w"
    /\ wi < Len(docs)
    /\ fs' = Write(fs, archive_path(cwd), ArchiveRecord(wi, docs[wi + 1]))
    /\ wi' = wi + 1
    /\ UNCHANGED <<xvars, envvars, loadvars, pc, split_docs, vectorstore, sample, failed,
                   fs0, trail, svcvars>>

\* save_llm_full 98-100: the loop is over, the file is closed
ArchiveClose ==
    /\ pc = "archive_w"
    /\ wi = Len(docs)
    /\ pc' = main_next("archive")
    /\ trail' = Append(trail, "archive")
    /\ UNCHANGED <<xvars, envvars, fs, loadvars, wi, split_docs, vectorstore, sample,
                   failed, fs0, svcvars>>

\* the text splitter on one document: a document within chunk_size is one
\* chunk with the document's content and metadata; a longer one is cut at a
\* line boundary
RECURSIVE split_text(_)
split_text(doc) ==
    IF count_tokens(doc.page_content) <= chunk_size \/ Len(doc.page_content) = 1
    THEN <<doc>>
    ELSE LET n == Len(doc.page_content)
             h == (n + 1) \div 2
         IN  split_text(Document(SubSeq(doc.page_content, 1, h), doc.metadata))
                \o split_text(Document(SubSeq(doc.page_content, h + 1, n), doc.metadata))

RECURSIVE split_all(_)
split_all(ds) == IF ds = <<>> THEN <<>> ELSE split_text(Head(ds)) \o split_all(Tail(ds))

\* split_documents: langraph_docs.py 103-137
SplitDocuments ==
    /\ pc = "split"
    /\ split_docs' = split_all(docs)
    /\ pc' = main_next("split")
    /\ trail' = Append(trail, "split")
    /\ UNCHANGED <<xvars, envvars, fs, loadvars, wi, vectorstore, sample, failed, fs0,
                   svcvars>>

\* create_vectorstore 160-165: from_documents embeds the next chunk
EmbedChunk ==
    /\ pc = "embed"
    /\ Len(vectorstore) < Len(split_docs)
    /\ vectorstore' = Append(vectorstore, Row(split_docs[Len(vectorstore) + 1]))
    /\ UNCHANGED <<xvars, envvars, fs, loadvars, pc, wi, split_docs, sample,
                   failed, fs0, trail, svcvars>>

\* the embedding provider raises on a chunk: nothing catches it
EmbedFail ==
    /\ pc = "embed"
    /\ Len(vectorstore) < Len(split_docs)
    /\ pc' = "aborted"
    /\ failed' = "embed"
    /\ UNCHANGED <<xvars, envvars, fs, loadvars, wi, split_docs, vectorstore, sample,
                   fs0, trail, svcvars>>

\* create_vectorstore 160-167: from_documents returns the store
EmbedDone ==
    /\ pc = "embed"
    /\ Len(vectorstore) = Len(split_docs)
    /\ pc' = main_next("embed")
    /\ trail' = Append(trail, "embed")
    /\ UNCHANGED <<xvars, envvars, fs, loadvars, wi, split_docs, vectorstore, sample,
                   failed, fs0, svcvars>>

\* create_vectorstore 169-172: vectorstore.persist().  The file holds the
\* rows; its serialization (the build passes serialize="parquet", the
\* query serializer="parquet") is not modelled.
Persist ==
    /\ pc = "persist"
    /\ fs' = [fs EXCEPT ![build_persist_path(cwd)] = File(vectorstore)]
    /\ pc' = main_next("persist")
    /\ trail' = Append(trail, "persist")
    /\ UNCHANGED <<xvars, envvars, loadvars, wi, split_docs, vectorstore, sample, failed,
                   fs0, svcvars>>

\* main 180-188: the sample query on the store just built; each result's
\* source and content are printed (every modelled content is shorter than
\* the 500 characters printed)
SampleQuery ==
    /\ pc = "sample"
    /\ sample' = LET found == similarity_search(vectorstore, "what is langgraph?", k)
                 IN  [i \in DOMAIN found |->
                        <<MetaGet(found[i].metadata, "source", ""), found[i].page_content>>]
    /\ pc' = main_next("sample")
    /\ trail' = Append(trail, "sample")
    /\ UNCHANGED <<xvars, envvars, fs, loadvars, wi, split_docs, vectorstore, failed, fs0,
                   svcvars>>

----------------------------------------------------------------------------
(* The query service: agent.py *)

Queries == {"what is langgraph?", "nodes"}

\* blocks numbered by the index enumerate() gives
format_context_ZeroBased(relevant_docs) ==
    Join(NLNL,
         [i \in DOMAIN relevant_docs |->
            Cat(<<"=Document " \o Str(i - 1) \o " == ">>,
                Cat(NL, relevant_docs[i].page_content))])

\* langgraph_query_tool 33-38: the blocks joined by "\n\n"
format_context(relevant_docs) ==
    Join(NLNL,
         [i \in DOMAIN relevant_docs |->
            Cat(<<"=Document " \o Str(i) \o " == ">>,
                Cat(NL, relevant_docs[i].page_content))])

\* SKLearnVectorStore(persist_path=...): the rows of the file when there is
\* one, an empty store otherwise
load_store(f, p) == IF f[p].exists THEN f[p].data ELSE <<>>

NoCall ==
    [op |-> "none", arg |-> "", status |-> "none", relevant |-> <<>>,
     result |-> EmptyText, path |-> "", archived |-> FALSE, persisted |-> FALSE]

\* the tool persists the store it loaded
QueryTool_Persists ==
    /\ \E query \in Queries, provider \in {"ok", "error"} :
        LET path == query_persist_path(cwd)
            store == load_store(fs, path)
            raises == provider = "error" \/ (store = <<>> /\ libEmpty = "raise")
            relevant_docs == IF raises THEN <<>> ELSE similarity_search(store, query, k)
            formatted_context == format_context(relevant_docs)
        IN  /\ lastCall' =
                [op |-> "query", arg |-> query,
                 status |-> IF raises THEN "raised" ELSE "returned",
                 relevant |-> relevant_docs,
                 result |-> IF raises THEN EmptyText ELSE formatted_context,
                 path |-> path, archived |-> "archive" \in Range(trail),
                 persisted |-> "persist" \in Range(trail)]
            /\ qlog' = IF raises THEN qlog
                       ELSE qlog \cup {<<query, fs[path], formatted_context>>}
            /\ fs' = IF raises THEN fs ELSE [fs EXCEPT ![path] = File(store)]
    /\ UNCHANGED <<xvars, envvars, loadvars, buildvars, rlog>>

\* langgraph_query_tool: agent.py 15-39.  The call raises when the
\* embedding provider fails, and when the store has no rows and the store
\* library refuses to search it.
QueryTool ==
    /\ \E query \in Queries, provider \in {"ok", "error"} :
        LET path == query_persist_path(cwd)
            store == load_store(fs, path)
            raises == provider = "error" \/ (store = <<>> /\ libEmpty = "raise")
            relevant_docs == IF raises THEN <<>> ELSE similarity_search(store, query, k)
            formatted_context == format_context(relevant_docs)
        IN  /\ lastCall' =
                [op |-> "query", arg |-> query,
                 status |-> IF raises THEN "raised" ELSE "returned",
                 relevant |-> relevant_docs,
                 result |-> IF raises THEN EmptyText ELSE formatted_context,
                 path |-> path, archived |-> "archive" \in Range(trail),
                 persisted |-> "persist" \in Range(trail)]
            /\ qlog' = IF raises THEN qlog
                       ELSE qlog \cup {<<query, fs[path], formatted_context>>}
    /\ UNCHANGED <<xvars, envvars, fs, loadvars, buildvars, rlog>>

\* the handler without its try/except
ResourceRead_Uncaught ==
    /\ LET err == OpenError(fs, doc_path)
       IN  /\ lastCall' =
                [op |-> "read", arg |-> "",
                 status |-> IF err = "" THEN "returned" ELSE "raised",
                 relevant |-> <<>>,
                 result |-> IF err = "" THEN fs[doc_path].data ELSE EmptyText,
                 path |-> doc_path,
                 archived |-> "archive" \in Range(trail),
                 persisted |-> "persist" \in Range(trail)]
           /\ rlog' = IF err = "" THEN rlog \cup {<<fs[doc_path], fs[doc_path].data>>}
                      ELSE rlog
    /\ UNCHANGED <<xvars, envvars, fs, loadvars, buildvars, qlog>>

\* get_all_langgraphp_docs: agent.py 43-59
ResourceRead ==
    /\ LET err == OpenError(fs, doc_path)
           text == IF err = "" THEN fs[doc_path].data
                   ELSE <<"Error reading log file: " \o err>>
       IN  /\ lastCall' =
                [op |-> "read", arg |-> "", status |-> "returned",
                 relevant |-> <<>>, result |-> text, path |-> doc_path,
                 archived |-> "archive" \in Range(trail),
                 persisted |-> "persist" \in Range(trail)]
           /\ rlog' = rlog \cup {<<fs[doc_path], text>>}
    /\ UNCHANGED <<xvars, envvars, fs, loadvars, buildvars, qlog>>

----------------------------------------------------------------------------
(* Initial states and specifications *)

\* most rows of a store file found at the service's path
MaxStoreRows == 4

\* most documents handed to save_llm_full on its own
MaxDocs == 2

RowTexts == {<<"LangGraph">>, <<"Nodes and", "", "edges">>}

StoreFiles(n) ==
    {File([i \in DOMAIN ts |-> Row(Document(ts[i], {<<"source", "/old">>}))]) :
        ts \in SeqsUpTo(RowTexts, n)}

OldArchive == File(<<"DOCUMENT 1", "SOURCE: /old", "CONTENT:", "old", "">>)

\* the script itself is a regular file
ScriptFile == File(<<"import os", "">>)

\* the file systems a run may start in: the script exists; in the working
\* directory there may be an archive and store files of earlier runs
InitFs(c, stores) ==
    {f \in {[p \in AllPaths |->
                IF p = ModuleFile THEN ScriptFile
                ELSE IF p = archive_path(c) THEN a
                ELSE IF p = query_persist_path(c) THEN q
                ELSE Missing] :
             a \in {Missing, OldArchive}, q \in {Missing} \cup stores} :
        WellFormedFs(f)}

InitExtract ==
    /\ html = [text |-> <<>>, main |-> <<>>]
    /\ xpc = "idle"
    /\ extracted = <<>>

InitService ==
    /\ lastCall = NoCall
    /\ qlog = {}
    /\ rlog = {}

InitBuild(start) ==
    /\ pc = start
    /\ wi = 0
    /\ split_docs = <<>>
    /\ vectorstore = <<>>
    /\ sample = <<>>
    /\ failed = ""
    /\ trail = <<>>

InitLoad(graphs) ==
    /\ links \in graphs
    /\ seedIdx = 1
    /\ yielded = {}
    /\ docs = <<>>
    /\ tokens_per_doc = <<>>

\* main() is about to run, beside a running query service
Init ==
    /\ InitExtract
    /\ cwd \in Cwds
    /\ libEmpty \in {"raise", "empty"}
    /\ fs \in InitFs(cwd, {File(<<Row(Document(<<"LangGraph">>, {<<"source", "/old">>}))>>)})
    /\ fs0 = fs
    /\ InitLoad(SmallGraphs)
    /\ InitBuild("load")
    /\ InitService

Build ==
    \/ LoaderYield
    \/ LoaderNext
    \/ CrawlFail
    \/ LoadReturn
    \/ ArchiveOpen
    \/ ArchiveWrite
    \/ ArchiveClose
    \/ SplitDocuments
    \/ EmbedChunk
    \/ EmbedFail
    \/ EmbedDone
    \/ Persist
    \/ SampleQuery

Service == QueryTool \/ ResourceRead

Next == Build \/ Service

\* the build beside the running service
Spec == Init /\ [][Next]_vars

\* the build alone
SpecBuild == Init /\ [][Build]_vars

\* the service alone, over any store file an earlier run may have left
InitServiceOnly ==
    /\ InitExtract
    /\ cwd \in Cwds
    /\ libEmpty \in {"raise", "empty"}
    /\ fs \in InitFs(cwd, StoreFiles(MaxStoreRows))
    /\ fs0 = fs
    /\ InitLoad({NoLinks})
    /\ InitBuild("idle")
    /\ InitService

SpecService == InitServiceOnly /\ [][Service]_vars

\* load_langgraph_docs alone, over every modelled link graph
InitLoadOnly ==
    /\ InitExtract
    /\ cwd = "/app"
    /\ libEmpty = "raise"
    /\ fs \in InitFs(cwd, {})
    /\ fs0 = fs
    /\ InitLoad(AllGraphs)
    /\ InitBuild("load")
    /\ InitService

Load == LoaderYield \/ LoaderNext \/ CrawlFail \/ LoadReturn

SpecLoad == InitLoadOnly /\ [][Load]_vars

\* the documents save_llm_full may be given
ArchiveContents ==
    {<<"">>, <<"text">>, <<"first", "", "DOCUMENT 1">>, <<"DOCUMENT 2", "text">>}

ArchiveDocuments ==
    {Document(c, m) : c \in ArchiveContents,
                      m \in {{}, {<<"source", "/a">>}, {<<"source", "/b">>, <<"title", "t">>}}}

\* save_llm_full alone, on any document list
InitArchiveOnly ==
    /\ InitExtract
    /\ cwd \in Cwds
    /\ libEmpty = "raise"
    /\ fs \in InitFs(cwd, {})
    /\ fs0 = fs
    /\ links = NoLinks
    /\ seedIdx = Len(urls) + 1
    /\ yielded = {}
    /\ docs \in SeqsUpTo(ArchiveDocuments, MaxDocs)
    /\ tokens_per_doc = [i \in DOMAIN docs |-> count_tokens(docs[i].page_content)]
    /\ InitBuild("archive")
    /\ InitService

Archive == ArchiveOpen \/ ArchiveWrite \/ ArchiveClose

SpecArchive == InitArchiveOnly /\ [][Archive]_vars

\* bs4_extractor alone, on any page
InitExtractOnly ==
    /\ html \in HtmlInputs
    /\ xpc = "call"
    /\ extracted = <<>>
    /\ cwd = "/app"
    /\ libEmpty = "raise"
    /\ fs \in InitFs(cwd, {})
    /\ fs0 = fs
    /\ InitLoad({NoLinks})
    /\ InitBuild("idle")
    /\ InitService

SpecExtract == InitExtractOnly /\ [][Extract]_vars

----------------------------------------------------------------------------
(* C10: the text extractor *)

\* the text the extractor is to work on: the main-content region's when the
\* page has one, the whole page's otherwise
C10_Source ==
    IF html.main = <<>> THEN html.text
    ELSE [i \in 1..(html.main[2] - html.main[1] + 1) |-> html.text[html.main[1] + i - 1]]

\* the positions of C10_Source that survive: those from the first to the
\* last non-whitespace character, less every newline that follows two
\* newlines
C10_Kept ==
    LET t == C10_Source
        solid == {i \in DOMAIN t : t[i] \notin Whitespace}
    IN  {i \in DOMAIN t :
            /\ \E a \in solid : a <= i
            /\ \E b \in solid : i <= b
            /\ ~(i >= 3 /\ t[i] = "\n" /\ t[i - 1] = "\n" /\ t[i - 2] = "\n")}

C10_Expected ==
    [j \in 1..Cardinality(C10_Kept) |->
        C10_Source[CHOOSE i \in C10_Kept : Cardinality({m \in C10_Kept : m <= i}) = j]]

C10_WitnessWholePage ==
    /\ xpc = "returned"
    /\ html.main = <<>>
    /\ html.text = <<"a", "\n", "\n", "\n", "a">>
    /\ extracted = <<"a", "\n", "\n", "a">>

----------------------------------------------------------------------------
(* C5: the archiver *)

C5_File == fs[archive_path(cwd)].data

\* a line that reads as a record header
C5_IsHeader(line) == line \in {"DOCUMENT " \o Str(n) : n \in 1..9}

C5_Headers(lines) == {i \in DOMAIN lines : C5_IsHeader(lines[i])}

\* the n-th smallest member of a set of numbers
C5_Nth(S, n) == CHOOSE i \in S : Cardinality({m \in S : m <= i}) = n

\* the lines of record i: header, source, content marker, the content, a
\* blank line, the separator, a blank line
C5_Record(i, doc) ==
    << "DOCUMENT " \o Str(i),
       "SOURCE: " \o MetaGet(doc.metadata, "source", "Unknown url"),
       "CONTENT:" >>
    \o doc.page_content \o <<"", Separator, "">>

RECURSIVE C5_Records(_, _)
C5_Records(ds, i) ==
    IF i > Len(ds) THEN <<>> ELSE C5_Record(i, ds[i]) \o C5_Records(ds, i + 1)

\* header-like lines among the contents of the documents
C5_ContentHeaders ==
    {<<d, i>> \in (DOMAIN docs) \X (1..9) :
        i \in DOMAIN docs[d].page_content /\ C5_IsHeader(docs[d].page_content[i])}

\* C5 as stated: after save_llm_full the file holds exactly N header lines,
\* the j-th of them reading DOCUMENT j and followed by document j's source,
\* the content marker, document j's content, a blank line and the
\* separator line; what the file held before is gone.
C5_ExactlyNHeaders ==
    pc = "split" =>
        LET H == C5_Headers(C5_File)
        IN  /\ fs[archive_path(cwd)].exists
            /\ Cardinality(H) = Len(docs)
            /\ \A j \in 1..Cardinality(H) :
                  LET h == C5_Nth(H, j)
                      n == Len(docs[j].page_content)
                  IN  /\ h + n + 4 <= Len(C5_File)
                      /\ SubSeq(C5_File, h, h + n + 4) = Front(C5_Record(j, docs[j]))

\* C5 amended: after save_llm_full the file is exactly the N records in
\* input order and nothing else (what it held before is gone); a document
\* without a source is written with "Unknown url"; the file has one header
\* line per document plus one for every content line that itself reads
\* DOCUMENT <n>, so exactly N when no content holds such a line.
C5_Archive ==
    pc = "split" =>
        /\ fs[archive_path(cwd)] = File(C5_Records(docs, 1) \o <<"">>)
        /\ Cardinality(C5_Headers(C5_File)) = Len(docs) + Cardinality(C5_ContentHeaders)

\* two documents archived over an earlier archive, one content holding a
\* header-like line
C5_Witness ==
    /\ pc = "split"
    /\ Len(docs) = 2
    /\ fs0[archive_path(cwd)].exists
    /\ C5_ContentHeaders # {}
    /\ docs[1].metadata = {}

----------------------------------------------------------------------------
(* C9: the document loader *)

C9_Source(i) == MetaGet(docs[i].metadata, "source", "Unknown URL")

\* every page some seed's loader reaches
C9_Reachable == UNION {LoaderPages(links, urls[s]) : s \in DOMAIN urls}

\* the first seed that reaches a page
C9_FirstSeed(p) == CHOOSE s \in DOMAIN urls :
    /\ p \in LoaderPages(links, urls[s])
    /\ \A t \in 1..(s - 1) : p \notin LoaderPages(links, urls[t])

\* C9 as stated: in the returned list every page reachable from the seeds
\* within the depth bound appears as exactly one document with that page's
\* URL as source, the documents of an earlier seed before those of a later
\* one.
C9_OneDocumentPerPage ==
    pc = "archive" =>
        /\ \A p \in C9_Reachable :
              Cardinality({i \in DOMAIN docs : C9_Source(i) = p}) = 1
        /\ \A i \in DOMAIN docs : C9_Source(i) \in C9_Reachable
        /\ \A i, j \in DOMAIN docs :
              C9_FirstSeed(C9_Source(i)) < C9_FirstSeed(C9_Source(j)) => i < j

\* the number of documents the seeds before seed s contribute
RECURSIVE C9_Offset(_)
C9_Offset(s) ==
    IF s = 1 THEN 0
    ELSE C9_Offset(s - 1) + Cardinality(LoaderPages(links, urls[s - 1]))

\* C9 amended: the returned list is one segment per seed, in seed order;
\* the segment of a seed holds exactly one document for every page
\* reachable from that seed within the depth bound, its source that page's
\* URL and its content that page's text.  A page reachable from m seeds
\* therefore appears m times, once in each of their segments.
C9_OneDocumentPerSeedAndPage ==
    pc = "archive" =>
        /\ Len(docs) = C9_Offset(Len(urls) + 1)
        /\ \A s \in DOMAIN urls :
              LET seg == (C9_Offset(s) + 1)..C9_Offset(s + 1)
              IN  /\ {C9_Source(i) : i \in seg} = LoaderPages(links, urls[s])
                  /\ \A i \in seg : docs[i] = PageDocument(C9_Source(i))
        /\ \A p \in Pages :
              Cardinality({i \in DOMAIN docs : C9_Source(i) = p})
                 = Cardinality({s \in DOMAIN urls : p \in LoaderPages(links, urls[s])})
        /\ tokens_per_doc = [i \in DOMAIN docs |-> count_tokens(PageText(C9_Source(i)))]

\* a page linked from two seeds is in the returned list twice
C9_Witness ==
    /\ pc = "archive"
    /\ "/shared" \in LoaderPages(links, urls[1]) \cap LoaderPages(links, urls[2])
    /\ Cardinality({i \in DOMAIN docs : C9_Source(i) = "/shared"}) = 2

\* a page beyond the depth bound is not in the returned list
C9_WitnessDepth ==
    /\ pc = "archive"
    /\ links = Chain
    /\ \E i \in DOMAIN docs : C9_Source(i) = "/c4"
    /\ \A i \in DOMAIN docs : C9_Source(i) # "/c5"

----------------------------------------------------------------------------
(* C3: the resource read never raises *)

\* what str(e) can be for a failed open of the resource's path
C3_Failures ==
    {"[Errno 2] No such file or directory: '" \o doc_path \o "'",
     "[Errno 20] Not a directory: '" \o doc_path \o "'"}

\* C3: a resource read always returns: when the file cannot be opened, the
\* string "Error reading log file: " followed by the failure's description;
\* when it can, the file's contents; and the read changes no file.
C3_ReadNeverRaises ==
    /\ [](/\ lastCall.op = "read" => lastCall.status = "returned"
          /\ \A e \in rlog :
                IF e[1].exists
                THEN e[2] = e[1].data
                ELSE \E d \in C3_Failures : e[2] = <<"Error reading log file: " \o d>>)
    /\ [][lastCall'.op = "read" => fs' = fs]_vars

\* a read of the missing resource file has returned the error string
C3_Witness ==
    /\ lastCall.op = "read"
    /\ lastCall.status = "returned"
    /\ ~fs[lastCall.path].exists
    /\ lastCall.result =
          <<"Error reading log file: [Errno 20] Not a directory: '/app/agent.py/llms_full.txt'">>

----------------------------------------------------------------------------
(* C4: the format of the retrieval's result *)

\* the lines of the blocks from block i on: a blank line before every block
\* but the first, the header, the record's text
RECURSIVE C4_Lines(_, _)
C4_Lines(recs, i) ==
    IF i > Len(recs) THEN <<>>
    ELSE (IF i > 1 THEN <<"">> ELSE <<>>)
            \o <<"=Document " \o Str(i) \o " == ">>
            \o recs[i].page_content
            \o C4_Lines(recs, i + 1)

\* C4: a retrieval that returns has retrieved n <= 3 records and returns
\* the n blocks in rank order, block i being the header numbered i and the
\* i-th record's text, one blank line between two blocks; the empty string
\* when n = 0.
C4_Format ==
    (lastCall.op = "query" /\ lastCall.status = "returned") =>
        LET n == Len(lastCall.relevant)
            store == fs[lastCall.path].data
        IN  /\ n <= 3
            /\ n = IF Len(store) < 3 THEN Len(store) ELSE 3
            /\ \A i \in 1..n : \E r \in DOMAIN store :
                  lastCall.relevant[i] = Document(store[r].text, store[r].metadata)
            /\ lastCall.result = IF n = 0 THEN <<"">> ELSE C4_Lines(lastCall.relevant, 1)

\* a retrieval over a store of 4 rows has returned 3 blocks, a multi-line
\* record among them
C4_Witness ==
    /\ lastCall.op = "query"
    /\ lastCall.status = "returned"
    /\ Len(fs[lastCall.path].data) = 4
    /\ Len(lastCall.relevant) = 3
    /\ \E i \in 1..3 : Len(lastCall.relevant[i].page_content) > 1

\* a retrieval that found nothing has returned the empty string
C4_WitnessEmpty ==
    /\ lastCall.op = "query"
    /\ lastCall.status = "returned"
    /\ lastCall.relevant = <<>>
    /\ lastCall.result = <<"">>

----------------------------------------------------------------------------
(* C1, C2: the service reads what the build wrote *)

\* C1: a resource read made after the build wrote the archive opens the
\* file the archiver wrote and returns its contents.
C1_ReadReturnsArchive ==
    (lastCall.op = "read" /\ lastCall.archived) =>
        /\ lastCall.path = archive_path(cwd)
        /\ lastCall.result = fs[archive_path(cwd)].data

\* C2: a retrieval made after the build persisted the store opens the path
\* the build persisted to, and every record it returns is one the build
\* stored.
C2_QueryReadsBuiltStore ==
    (lastCall.op = "query" /\ lastCall.persisted) =>
        /\ lastCall.path = build_persist_path(cwd)
        /\ lastCall.status = "returned" =>
              \A i \in DOMAIN lastCall.relevant : \E r \in DOMAIN vectorstore :
                  lastCall.relevant[i] = Document(vectorstore[r].text, vectorstore[r].metadata)

----------------------------------------------------------------------------
(* C6: the service writes nothing and keeps no state *)

\* C6: every change of a file is a step of the build (the two operations of
\* the service change none), and two calls that returned, with the same
\* argument and over the same file contents, returned the same result,
\* whatever the build and the other calls did in between.
C6_NoWriteNoState ==
    /\ [](/\ \A a, b \in qlog : (a[1] = b[1] /\ a[2] = b[2]) => a[3] = b[3]
          /\ \A a, b \in rlog : a[1] = b[1] => a[2] = b[2])
    /\ [][fs' # fs => (pc' # pc \/ wi' # wi)]_vars
    /\ [][lastCall' # lastCall => (fs' = fs /\ UNCHANGED <<loadvars, buildvars>>)]_vars

\* both operations were called, before and after the build changed the
\* files of its own
C6_Witness ==
    /\ Cardinality(qlog) = 2
    /\ rlog # {}
    /\ lastCall.persisted
    /\ fs # fs0

----------------------------------------------------------------------------
(* C7: the order of the build's stages *)

C7_Stages == <<"crawl", "archive", "split", "embed", "persist", "sample">>

C7_StoreWritten == fs[build_persist_path(cwd)] # fs0[build_persist_path(cwd)]

\* C7: the stages complete in the order crawl, archive, split, embed,
\* persist, sample query; the archive is opened only once the crawl of
\* every seed is over and the list is complete; no chunk is cut or embedded
\* before every loaded document is in the archive; the store file is
\* written only once every chunk is embedded, and holds them all; the
\* sample query prints only once the store file is written.
C7_StageOrder ==
    /\ trail = SubSeq(C7_Stages, 1, Len(trail))
    /\ (wi > 0 \/ fs[archive_path(cwd)] # fs0[archive_path(cwd)]) =>
          (seedIdx > Len(urls) /\ "crawl" \in Range(trail))
    /\ (split_docs # <<>> \/ vectorstore # <<>>) =>
          /\ wi = Len(docs)
          /\ "archive" \in Range(trail)
          /\ Cardinality(C5_Headers(C5_File)) >= Len(docs)
    /\ C7_StoreWritten =>
          /\ Len(vectorstore) = Len(split_docs)
          /\ Len(vectorstore) >= Len(urls)
          /\ fs[build_persist_path(cwd)] = File(vectorstore)
          /\ "embed" \in Range(trail)
    /\ sample # <<>> => C7_StoreWritten

\* a build has run to its end
C7_Witness ==
    /\ pc = "done"
    /\ trail = C7_Stages
    /\ Len(sample) = 3
    /\ C7_StoreWritten
    /\ Len(docs) > Len(urls)

----------------------------------------------------------------------------
(* C8: a failing stage aborts the build *)

\* C8: a crawl that failed leaves every file as it was and no later stage
\* has done anything; an embedding that failed leaves the store file as it
\* was and the sample query unrun; an aborted build takes no further step
\* (nothing is retried).
C8_FailureAborts ==
    /\ [](/\ failed # "" => pc = "aborted"
          /\ failed = "crawl" =>
                /\ fs = fs0
                /\ wi = 0 /\ split_docs = <<>> /\ vectorstore = <<>> /\ sample = <<>>
                /\ trail = <<>>
          /\ failed = "embed" =>
                /\ fs[build_persist_path(cwd)] = fs0[build_persist_path(cwd)]
                /\ sample = <<>>
                /\ trail = <<"crawl", "archive", "split">>)
    /\ [][pc = "aborted" => UNCHANGED <<fs, loadvars, buildvars>>]_vars

\* the embedding provider failed after some chunks were embedded
C8_Witness ==
    /\ failed = "embed"
    /\ vectorstore # <<>>
    /\ fs[archive_path(cwd)] # fs0[archive_path(cwd)]

\* the crawl failed after some pages were loaded
C8_WitnessCrawl ==
    /\ failed = "crawl"
    /\ docs # <<>>
    /\ seedIdx > 1

=============================================================================
